---- MODULE Spec2Model ----
(***************************************************************************)
(* A model of weather_app.main(): credential resolution, location          *)
(* acquisition and validation, the single HTTP GET and the branching on    *)
(* the response status.  Strings are sequences of one-character strings;   *)
(* a temperature is a fixed-point number in hundredths of a degree.        *)
(***************************************************************************)
EXTENDS Integers, Sequences, FiniteSets, TLC

\* ------------------------------------------------------------------ bounds
\* Longest location string typed by the user ("a a a a" needs 7 characters).
MaxLen == 7

\* Longest location string that also draws on upper-case letters.
MaxMixedLen == 3

\* ------------------------------------------------------------- vocabulary
\* Python's None, kept comparable with strings (sequences of characters).
None == <<"None">>

\* The characters the inputs are drawn from: a letter, a digit and the
\* whitespace character; short inputs also draw on an upper-case letter.
Chars == {"a", "1", " "}

MixedChars == Chars \cup {"Z"}

Whitespace == {" "}

Lower == {"a","b","c","d","e","f","g","h","i","j","k","l","m",
          "n","o","p","q","r","s","t","u","v","w","x","y","z"}

Upper == {"A","B","C","D","E","F","G","H","I","J","K","L","M",
          "N","O","P","Q","R","S","T","U","V","W","X","Y","Z"}

Strings == UNION {[1..n -> Chars] : n \in 0..MaxLen}
           \cup UNION {[1..n -> MixedChars] : n \in 0..MaxMixedLen}

\* Values of -k/--api-key: absent, empty, or a key.
OptionKeys == {None, <<>>, <<"k">>}

\* Values of API_KEY in the process environment before .env is loaded.
EnvValues == {None, <<>>, <<"e">>}

\* Values of API_KEY in the .env file (None: no file, or no such entry).
DotenvValues == {None, <<>>, <<"d">>}

\* Where input() writes its prompt: sys.stdout, or, read from a terminal by
\* an interpreter that has not loaded readline, the C stderr.
PromptStreams == {"stdout", "stderr"}

\* The numeric levels of the logging module.
DEBUG == 10
INFO == 20
ERROR == 40

\* LOGGING_LEVEL = logging.ERROR
LOGGING_LEVEL == ERROR

\* basicConfig without stream=: the handler writes to sys.stderr.
HandlerStream_Default == "stderr"

\* stream= of logging.basicConfig
HandlerStream == "stdout"

\* Response bodies: not JSON at all, a weather document, an error document.
\* temp is main.temp in hundredths of a degree Fahrenheit.
NotJson == [json |-> FALSE, hasMain |-> FALSE, temp |-> 0, cod |-> 0]

WeatherBody(t, c) == [json |-> TRUE, hasMain |-> TRUE, temp |-> t, cod |-> c]

ErrorBody(c) == [json |-> TRUE, hasMain |-> FALSE, temp |-> 0, cod |-> c]

Temps == {-150, 50, 6976}

Bodies == {NotJson} \cup {WeatherBody(t, 200) : t \in Temps}
                    \cup {ErrorBody(c) : c \in {404, 500}}

Statuses == {200, 404, 500}

NoResponse == [status |-> 0, body |-> NotJson]

Responses == [status : Statuses, body : Bodies]

VARIABLES
    pc,               \* position in main()
    options_api_key,  \* options.api_key
    options_location, \* options.location
    environ,          \* API_KEY in os.environ once consulted, else Unread
    api_key,          \* local api_key
    location,         \* local location
    inputLocation,    \* the location string as the user gave it
    stdout,           \* lines written to sys.stdout
    stderr,           \* lines written to sys.stderr
    logged,           \* records a handler emitted
    requests,         \* URLs passed to requests.get
    response,         \* the response object
    exitStatus,       \* <<>> while running, <<n>> once the process ended
    trace             \* external calls, in order

vars == <<pc, options_api_key, options_location, environ, api_key, location,
          inputLocation, stdout, stderr, logged, requests, response,
          exitStatus, trace>>

Unread == <<"Unread">>

\* ---------------------------------------------------------------- helpers
Truthy(s) == s # None /\ s # <<>>

\* The literal messages of main().
MsgKeyMissing == "API key missing! Either fill out a .env file or use -k with your key"
MsgValidation == "A validation error has occurred: "
MsgRequired == "A location is required."
MsgTooMany == "The location provided has too many items"
MsgInvalid == " is not a valid location."
MsgResponse == "Response: "
MsgSuccess == "Successfully retrieved data"
MsgNotFound == "Could not find any location for "
MsgUnknown == "An unknown error has occurred with the OpenWeather API: "

\* One line of a stream: a log record ("%(levelname)s: %(message)s", the
\* message being msg, then the interpolated arg or payload, then detail), a
\* print() line, the prompt, the help text or a traceback.
Line(kind, level, msg, detail, arg, n, payload) ==
    [kind |-> kind, level |-> level, msg |-> msg, detail |-> detail,
     arg |-> arg, n |-> n, payload |-> payload]

LogLine(level, msg, detail, arg, payload) ==
    Line("log", level, msg, detail, arg, 0, payload)

PrintLine(kind, arg, n) == Line(kind, 0, "", "", arg, n, NotJson)

Traceback(exc) == Line("traceback", 0, exc, "", <<>>, 0, NotJson)

\* Logger.isEnabledFor: logger.setLevel(LOGGING_LEVEL); the root handler has
\* no level of its own.
IsEnabledFor(level) == level >= LOGGING_LEVEL

\* What a logger.<level>() call adds to the records the handler emits.
Emit(recs, rec) == IF IsEnabledFor(rec.level) THEN Append(recs, rec) ELSE recs

\* What the same call adds to the stream called `name`: the root handler
\* writes to the stream basicConfig names.
EmitTo(name, out, rec) == IF HandlerStream = name THEN Emit(out, rec) ELSE out

\* str.split(): the maximal runs of non-whitespace characters.
RECURSIVE SplitFrom(_, _, _)
SplitFrom(s, i, cur) ==
    IF i > Len(s) THEN (IF cur = <<>> THEN <<>> ELSE <<cur>>)
    ELSE IF s[i] \in Whitespace
         THEN (IF cur = <<>> THEN <<>> ELSE <<cur>>) \o SplitFrom(s, i + 1, <<>>)
         ELSE SplitFrom(s, i + 1, Append(cur, s[i]))

Split(s) == SplitFrom(s, 1, <<>>)

\* re.match(r"^[a-zA-Z]*$", item)
MatchesAlpha(item) == \A i \in 1..Len(item) : item[i] \in Lower \cup Upper

\* ",".join(tokens)
RECURSIVE JoinComma(_)
JoinComma(tokens) ==
    IF tokens = <<>> THEN <<>>
    ELSE IF Len(tokens) = 1 THEN tokens[1]
    ELSE tokens[1] \o <<",">> \o JoinComma(Tail(tokens))

\* "is not None" in place of truthiness.
UseExplicit_NotNone(optKey) == optKey # None

\* if options.api_key:
UseExplicit(optKey) == Truthy(optKey)

\* dotenv.load_dotenv(): sets a variable only when the environment lacks it.
LoadDotenv(env, file) == IF env = None THEN file ELSE env

\* "is None" in place of "not": an empty key passes.
KeyMissing_NoneOnly(key) == key = None

\* if not api_key:
KeyMissing(key) == ~Truthy(key)

\* The prompt asked whatever -l holds.
NeedsPrompt_Always(optLoc) == TRUE

\* if options.location: ... else: get_input(...)
NeedsPrompt(optLoc) == ~Truthy(optLoc)

\* The try block: the message of the first exception raised, or NoError.
NoError == "none"

\* The size check off by one: four items pass.
ValidationError_FourItems(loc) ==
    IF Len(Split(loc)) = 0 THEN MsgRequired
    ELSE IF Len(Split(loc)) > 4 THEN MsgTooMany
    ELSE IF \E i \in 1..Len(Split(loc)) : ~MatchesAlpha(Split(loc)[i])
         THEN MsgInvalid
    ELSE NoError

\* The letters check made before the size check.
ValidationError_LettersFirst(loc) ==
    IF Len(Split(loc)) = 0 THEN MsgRequired
    ELSE IF \E i \in 1..Len(Split(loc)) : ~MatchesAlpha(Split(loc)[i])
         THEN MsgInvalid
    ELSE IF Len(Split(loc)) > 3 THEN MsgTooMany
    ELSE NoError

ValidationError(loc) ==
    IF Len(Split(loc)) = 0 THEN MsgRequired
    ELSE IF Len(Split(loc)) > 3 THEN MsgTooMany
    ELSE IF \E i \in 1..Len(Split(loc)) : ~MatchesAlpha(Split(loc)[i])
         THEN MsgInvalid
    ELSE NoError

\* The default country never appended.
Normalize_NoAppend(loc) == loc

\* if len(location.split()) == 2: location += " US"
Normalize(loc) == IF Len(Split(loc)) = 2 THEN loc \o <<" ", "U", "S">> ELSE loc

\* The URL of the GET, by its query parameters.
Url(loc, key) == [q |-> JoinComma(Split(loc)), appid |-> key, units |-> "imperial"]

\* round(x) in place of int(x).
IntTrunc_Round(x) == (x + 50) \div 100

\* int(x) of a float given in hundredths: the fraction is discarded.
IntTrunc(x) == IF x >= 0 THEN x \div 100 ELSE -((-x) \div 100)

\* ------------------------------------------------------------------- Init
Init ==
    /\ pc = "start"
    /\ options_api_key \in OptionKeys
    /\ options_location \in {None} \cup Strings
    /\ environ = Unread
    /\ api_key = None
    /\ location = None
    /\ inputLocation = None
    /\ stdout = <<>>
    /\ stderr = <<>>
    /\ logged = <<>>
    /\ requests = <<>>
    /\ response = NoResponse
    /\ exitStatus = <<>>
    /\ trace = <<>>

\* ---------------------------------------------------------------- actions
\* Lines 90-102: resolve the credential, exit when there is none, echo it.
ResolveKey ==
    /\ pc = "start"
    /\ \E env \in EnvValues, file \in DotenvValues :
        LET explicit == UseExplicit(options_api_key)
            loaded == LoadDotenv(env, file)
            key == IF explicit THEN options_api_key ELSE loaded
            calls == IF explicit THEN <<>> ELSE <<"load_dotenv", "getenv">>
            rec == LogLine(ERROR, MsgKeyMissing, "", <<>>, NotJson)
        IN  /\ environ' = IF explicit THEN Unread ELSE loaded
            /\ api_key' = key
            /\ IF KeyMissing(key)
               THEN /\ logged' = Emit(logged, rec)
                    /\ stdout' = EmitTo("stdout", stdout, rec)
                    /\ stderr' = EmitTo("stderr", stderr, rec)
                    /\ exitStatus' = <<1>>
                    /\ pc' = "done"
                    /\ trace' = trace \o calls \o <<"exit">>
               ELSE /\ stdout' = Append(stdout, PrintLine("echo", key, 0))
                    /\ pc' = "keyed"
                    /\ trace' = trace \o calls
                    /\ UNCHANGED <<stderr, logged, exitStatus>>
    /\ UNCHANGED <<options_api_key, options_location, location, inputLocation,
                   requests, response>>

\* Lines 103-106: take the location from the option or from the prompt.
AcquireLocation ==
    /\ pc = "keyed"
    /\ IF NeedsPrompt(options_location)
       THEN \E s \in Strings, out \in PromptStreams :
            /\ location' = s
            /\ inputLocation' = s
            /\ stdout' = IF out = "stdout"
                         THEN Append(stdout, PrintLine("prompt", <<>>, 0)) ELSE stdout
            /\ stderr' = IF out = "stderr"
                         THEN Append(stderr, PrintLine("prompt", <<>>, 0)) ELSE stderr
            /\ trace' = Append(trace, "get_input")
       ELSE /\ location' = options_location
            /\ inputLocation' = options_location
            /\ UNCHANGED <<stdout, stderr, trace>>
    /\ pc' = "located"
    /\ UNCHANGED <<options_api_key, options_location, environ, api_key,
                   logged, requests, response, exitStatus>>

\* Lines 109-127: validate the location, exit on a failure, append the country.
Validate ==
    /\ pc = "located"
    /\ LET err == ValidationError(location)
           arg == IF err = MsgInvalid THEN location ELSE <<>>
           rec == LogLine(ERROR, MsgValidation, err, arg, NotJson)
       IN IF err # NoError
          THEN /\ logged' = Emit(logged, rec)
               /\ stdout' = Append(EmitTo("stdout", stdout, rec), PrintLine("help", <<>>, 0))
               /\ stderr' = EmitTo("stderr", stderr, rec)
               /\ exitStatus' = <<1>>
               /\ pc' = "done"
               /\ trace' = trace \o <<"print_help", "exit">>
               /\ UNCHANGED location
          ELSE /\ location' = Normalize(location)
               /\ pc' = "validated"
               /\ UNCHANGED <<stdout, stderr, logged, exitStatus, trace>>
    /\ UNCHANGED <<options_api_key, options_location, environ, api_key,
                   inputLocation, requests, response>>

\* Lines 130-133: the GET, then response.json() for the debug message.
Request ==
    /\ pc = "validated"
    /\ requests' = Append(requests, Url(location, api_key))
    /\ trace' = Append(trace, "http_get")
    /\ \/ \* requests.get raises (no connection): nothing catches it
          /\ response' = response
          /\ stderr' = Append(stderr, Traceback("ConnectionError"))
          /\ exitStatus' = <<1>>
          /\ pc' = "done"
          /\ UNCHANGED <<stdout, logged>>
       \/ \E r \in Responses :
          LET rec == LogLine(DEBUG, MsgResponse, "", <<>>, r.body)
          IN /\ response' = r
             /\ IF ~r.body.json
                THEN \* response.json() raises while the f-string is built
                     /\ stderr' = Append(stderr, Traceback("JSONDecodeError"))
                     /\ exitStatus' = <<1>>
                     /\ pc' = "done"
                     /\ UNCHANGED <<stdout, logged>>
                ELSE /\ logged' = Emit(logged, rec)
                     /\ stdout' = EmitTo("stdout", stdout, rec)
                     /\ stderr' = EmitTo("stderr", stderr, rec)
                     /\ pc' = "responded"
                     /\ UNCHANGED exitStatus
    /\ UNCHANGED <<options_api_key, options_location, environ, api_key, location,
                   inputLocation>>

\* Lines 134-144: branch on the HTTP status.
HandleResponse ==
    /\ pc = "responded"
    /\ LET body == response.body
           info == LogLine(INFO, MsgSuccess, "", <<>>, NotJson)
           notFound == LogLine(ERROR, MsgNotFound, "", location, NotJson)
           unknown == LogLine(ERROR, MsgUnknown, "", <<>>, body)
       IN CASE response.status = 200 ->
                 IF ~body.hasMain
                 THEN \* response.json()["main"] raises KeyError after the info call
                      /\ logged' = Emit(logged, info)
                      /\ stdout' = EmitTo("stdout", stdout, info)
                      /\ stderr' = Append(EmitTo("stderr", stderr, info), Traceback("KeyError"))
                      /\ exitStatus' = <<1>>
                      /\ UNCHANGED trace
                 ELSE /\ logged' = Emit(logged, info)
                      /\ stdout' = EmitTo("stdout", stdout, info)
                                      \o << PrintLine("header", Split(location)[1], 0),
                                            PrintLine("temp", <<>>, IntTrunc(body.temp)) >>
                      /\ stderr' = EmitTo("stderr", stderr, info)
                      /\ exitStatus' = <<0>>
                      /\ trace' = Append(trace, "return")
            [] response.status = 404 ->
                 /\ logged' = Emit(logged, notFound)
                 /\ stdout' = EmitTo("stdout", stdout, notFound)
                 /\ stderr' = EmitTo("stderr", stderr, notFound)
                 /\ exitStatus' = <<0>>
                 /\ trace' = Append(trace, "return")
            [] OTHER ->
                 /\ logged' = Emit(logged, unknown)
                 /\ stdout' = EmitTo("stdout", stdout, unknown)
                 /\ stderr' = EmitTo("stderr", stderr, unknown)
                 /\ exitStatus' = <<0>>
                 /\ trace' = Append(trace, "return")
    /\ pc' = "done"
    /\ UNCHANGED <<options_api_key, options_location, environ, api_key, location,
                   inputLocation, requests, response>>

Next == ResolveKey \/ AcquireLocation \/ Validate \/ Request \/ HandleResponse

Spec == Init /\ [][Next]_vars

\* ----------------------------------------------------- claim vocabulary
Letters == Lower \cup Upper

\* Some record of `recs` has this level and message.
HasLog(recs, level, msg) ==
    \E i \in 1..Len(recs) : recs[i].kind = "log" /\ recs[i].level = level /\ recs[i].msg = msg

\* The lines of `out` of the given kinds, in order.
OfKinds(out, kinds) == SelectSeq(out, LAMBDA l : l.kind \in kinds)

\* How many elements of sequence `seq` equal x.
Count(seq, x) == Cardinality({i \in 1..Len(seq) : seq[i] = x})

\* The location string the user gave has been acquired and validated.
Checked == inputLocation # None /\ pc \notin {"start", "keyed", "located"}

\* The input has a character that is neither whitespace nor a letter.
HasNonLetter(str) == \E i \in 1..Len(str) : str[i] \notin Whitespace /\ str[i] \notin Letters

\* The number of tokens of str: the positions where a token starts.
TokenCount(str) ==
    Cardinality({i \in 1..Len(str) :
        str[i] \notin Whitespace /\ (i = 1 \/ str[i - 1] \in Whitespace)})

GoodInput(str) == TokenCount(str) \in 1..3 /\ ~HasNonLetter(str)

\* The order main() makes its external calls in.
Rank(e) ==
    CASE e = "load_dotenv" -> 1
      [] e = "getenv" -> 2
      [] e = "get_input" -> 3
      [] e = "print_help" -> 4
      [] e = "http_get" -> 5
      [] OTHER -> 6

\* ----------------------------------------------------------------- claims
\* C1: when -k is absent or empty and the API_KEY configuration value is
\* absent or empty, an ERROR record "API key missing..." is logged, the
\* process exits with status 1 and no HTTP request is made in the run.
C1_MissingCredential ==
    (pc # "start" /\ ~Truthy(options_api_key) /\ environ \in {None, <<>>}) =>
        /\ pc = "done"
        /\ logged = << LogLine(ERROR, MsgKeyMissing, "", <<>>, NotJson) >>
        /\ exitStatus = <<1>>
        /\ requests = <<>>
        /\ Count(trace, "http_get") = 0

C1_Witness ==
    /\ pc = "done"
    /\ options_api_key = None
    /\ environ = <<>>
    /\ HasLog(logged, ERROR, MsgKeyMissing)
    /\ exitStatus = <<1>>

\* C2: a non-empty explicit credential is the credential of the request and
\* the configuration (.env load, API_KEY lookup) is never consulted; the
\* configuration is consulted only when the explicit credential is absent or
\* empty, and then the API_KEY value is the credential used.
C2_CredentialSource ==
    pc # "start" =>
        /\ Truthy(options_api_key) =>
              /\ api_key = options_api_key
              /\ environ = Unread
              /\ Count(trace, "load_dotenv") = 0
              /\ Count(trace, "getenv") = 0
        /\ ~Truthy(options_api_key) =>
              /\ environ # Unread
              /\ api_key = environ
              /\ Count(trace, "load_dotenv") = 1
              /\ Count(trace, "getenv") = 1
        /\ \A i \in 1..Len(requests) :
              requests[i].appid = (IF Truthy(options_api_key) THEN options_api_key ELSE environ)

C2_Witness ==
    /\ Len(requests) = 1
    /\ options_api_key = <<"k">>
    /\ requests[1].appid = <<"k">>
    /\ environ = Unread

\* C3: a location of 1, 2 or 3 all-letter tokens passes validation and a
\* request is made; 2 tokens get "US" appended as the third, 1 or 3 tokens
\* are left unchanged, and q is the resulting tokens joined by commas in
\* their order (1 or 3 tokens, never 2).
C3_ValidLocation ==
    (Checked /\ GoodInput(inputLocation)) =>
        LET toks == Split(inputLocation)
            want == IF Len(toks) = 2 THEN Append(toks, <<"U", "S">>) ELSE toks
        IN  /\ Len(logged) = 0 \/ logged[1].msg # MsgValidation
            /\ Split(location) = want
            /\ Len(toks) # 2 => location = inputLocation
            /\ pc = "validated" \/ Len(requests) = 1
            /\ pc = "validated" => ENABLED Request
            /\ \A i \in 1..Len(requests) :
                  /\ requests[i].q = JoinComma(want)
                  /\ Count(requests[i].q, ",") \in {0, 2}
                  /\ Count(requests[i].q, " ") = 0
                  /\ requests[i].units = "imperial"

C3_Witness ==
    /\ pc = "done"
    /\ inputLocation = <<"Z", " ", "a">>
    /\ Len(requests) = 1
    /\ requests[1].q = <<"Z", ",", "a", ",", "U", "S">>

\* C4: a location of 0 tokens, of more than 3 tokens, or with a token that
\* has a non-letter, makes the run log exactly one error "A validation
\* error has occurred: <detail>", emit the help text, exit with status 1
\* and make no HTTP request.
C4_InvalidLocation ==
    (Checked /\ ~GoodInput(inputLocation)) =>
        /\ pc = "done"
        /\ Len(logged) = 1
        /\ logged[1].level = ERROR
        /\ logged[1].msg = MsgValidation
        /\ logged[1].detail \in {MsgRequired, MsgTooMany, MsgInvalid}
        /\ Len(OfKinds(stdout, {"help"})) = 1
        /\ exitStatus = <<1>>
        /\ requests = <<>>
        /\ Count(trace, "http_get") = 0

C4_Witness ==
    /\ pc = "done"
    /\ inputLocation # None
    /\ TokenCount(inputLocation) > 3
    /\ options_location = <<>>
    /\ exitStatus = <<1>>
    /\ Len(OfKinds(stdout, {"help"})) = 1

\* C5: a 200 response with a numeric main.temp prints exactly two success
\* lines, "<first token of the input> weather:" and "<n> degrees
\* Fahrenheit", n being main.temp with the fraction discarded (toward zero,
\* not rounded: 69.76 gives 69).
C5_SuccessOutput ==
    (pc = "done" /\ response.status = 200 /\ response.body.json /\ response.body.hasMain) =>
        LET t == response.body.temp
            out == OfKinds(stdout, {"header", "temp"})
        IN  /\ Len(out) = 2
            /\ out[1].kind = "header"
            /\ out[1].arg = Split(inputLocation)[1]
            /\ out[2].kind = "temp"
            /\ t >= 0 => (out[2].n * 100 <= t /\ t < (out[2].n + 1) * 100)
            /\ t <= 0 => (out[2].n * 100 >= t /\ t > (out[2].n - 1) * 100)
            /\ t = 6976 => out[2].n = 69
            /\ SubSeq(stdout, Len(stdout) - 1, Len(stdout)) = out

C5_Witness ==
    /\ pc = "done"
    /\ response.status = 200
    /\ response.body.temp = 6976
    /\ TokenCount(inputLocation) = 2
    /\ Len(stdout) >= 2
    /\ stdout[Len(stdout)].kind = "temp"
    /\ stdout[Len(stdout)].n = 69

\* C6 (as stated): every 404 response, whatever its body, makes the run log
\* an error naming the location, write nothing to standard output and end
\* with exit status 0.
C6_NotFoundAsStated ==
    (pc = "done" /\ response.status = 404) =>
        /\ \E i \in 1..Len(logged) :
              /\ logged[i].level = ERROR
              /\ logged[i].msg = MsgNotFound
              /\ logged[i].arg = location
        /\ stdout = <<>>
        /\ exitStatus = <<0>>

\* C7 (as stated): every response whose status is neither 200 nor 404,
\* whatever its body and whether or not it parses, makes the run log an
\* error with the full response payload, print no temperature line and end
\* normally with no failure exit code.
C7_OtherStatusAsStated ==
    (pc = "done" /\ response.status \notin {0, 200, 404}) =>
        /\ \E i \in 1..Len(logged) :
              /\ logged[i].level = ERROR
              /\ logged[i].msg = MsgUnknown
              /\ logged[i].payload = response.body
        /\ OfKinds(stdout, {"header", "temp"}) = <<>>
        /\ exitStatus = <<0>>

C9_SingleOrderedRequest ==
    /\ Len(requests) <= 1
    /\ Count(trace, "http_get") = Len(requests)
    /\ requests # <<>> =>
          /\ api_key \notin {None, <<>>, Unread}
          /\ requests[1].appid = api_key
          /\ inputLocation # None
          /\ GoodInput(inputLocation)
    /\ \A i, j \in 1..Len(trace) : i < j => Rank(trace[i]) < Rank(trace[j])
    /\ Count(trace, "get_input") =
          (IF pc \notin {"start", "keyed"} /\ inputLocation # None /\ ~Truthy(options_location)
           THEN 1 ELSE 0)
    /\ HasLog(logged, ERROR, MsgKeyMissing) => Count(trace, "get_input") = 0
    /\ Truthy(options_location) /\ inputLocation # None => inputLocation = options_location

C9_Witness ==
    /\ pc = "done"
    /\ trace = <<"load_dotenv", "getenv", "get_input", "http_get", "return">>
    /\ Len(requests) = 1

\* C10: the location checks have a fixed precedence and one reason is
\* reported: zero tokens reports "A location is required."; more than 3
\* tokens reports "...too many items" even when a token has a non-letter;
\* "is not a valid location" is reported only for 1 to 3 tokens of which
\* one has a non-letter.
C10_ReasonPrecedence ==
    (Checked /\ HasLog(logged, ERROR, MsgValidation)) =>
        LET n == TokenCount(inputLocation)
        IN  /\ Len(logged) = 1
            /\ n = 0 => logged[1].detail = MsgRequired
            /\ n > 3 => logged[1].detail = MsgTooMany
            /\ logged[1].detail = MsgInvalid <=> (n \in 1..3 /\ HasNonLetter(inputLocation))
            /\ logged[1].detail = MsgInvalid => logged[1].arg = inputLocation

C10_Witness ==
    /\ pc = "done"
    /\ inputLocation # None
    /\ TokenCount(inputLocation) > 3
    /\ HasNonLetter(inputLocation)
    /\ Len(logged) = 1
    /\ logged[1].detail = MsgTooMany

====
